---------------------------- MODULE Spec2Model ----------------------------
(***************************************************************************)
(* HCT survival prediction API (app/backend/main.py): request validation,  *)
(* the per-client rate limit, the /predict handler with its two counters,  *)
(* the explainability reader, /health and /metrics, and the startup load.  *)
(*                                                                         *)
(* Probabilities and importance scores are fixed-point numbers in          *)
(* thousandths (Scale = 1.0).                                              *)
(***************************************************************************)
EXTENDS Integers, Sequences, FiniteSets, TLC

VARIABLES
    phase,             \* "created" (module imported), "serving", "aborted"
    model,             \* global model: None or the loaded pipeline
    feature_info,      \* global feature_info: None or the loaded metadata
    prediction_count,  \* global prediction_count
    error_count,       \* global error_count
    storage,           \* the limiter's in-memory storage, per client key
    conns,             \* requests in flight, per connection slot
    resp,              \* the last response sent, with the request it answers
    seen,              \* history: first probability returned for each patient
    recent,            \* history: per client, limiter checks by age
    sent,              \* history: number of /predict responses per status
    overlap,           \* history: a route function ran beside another request
    files,             \* the files the trainer has written, by path
    trainer,           \* the run of the trainer: its path, pipeline and outcome
    rng,               \* the generator of the last call of the data generator
    datasets           \* history: the calls of the data generator, in order,
                       \* a call from outside with the dataset it returned

vars == <<phase, model, feature_info, prediction_count, error_count,
          storage, conns, resp, seen, recent, sent, overlap, files, trainer,
          rng, datasets>>

-----------------------------------------------------------------------------
(* Bounds of the model *)

\* /predict requests that reach the limiter in one behaviour of the server
MaxRequests == 3

\* /predict requests received in one behaviour of the server with its clock
MaxRateRequests == 4

\* /predict requests received in one behaviour of the concurrent server
MaxConcRequests == 3

\* parts of an output path given to the trainer
MaxPathLen == 4

\* rows of a synthetic dataset
MaxRows == 3

\* the largest of the consecutive seeds given to the data generator
MaxSeed == 3

\* calls of the data generator in one behaviour
MaxCalls == 2

-----------------------------------------------------------------------------
(* Constants of the program *)

Scale == 1000
Threshold == Scale \div 2

RateLimit == 10
RateWindow == 60

AgeMin == 18
AgeMax == 80
ComorbidityMax == 10
TimeFromDiagnosisMax == 5000
TreatmentDaysMax == 365

TopK == 5

\* rows of the dataset the trainer fits its pipeline on
TrainRows == 3000

None == "None"

Note == [kind |-> "note", note |-> "Feature importance unavailable"]

\* a file system on which nothing has been written
NoFiles == <<>>

\* the data generator has not been called: it has constructed no generator
NoGenerator == [seed |-> -1, drawn |-> <<>>]

\* the trainer has not been run
NoRun == [state |-> "idle", output_path |-> <<>>, pipeline |-> None]

-----------------------------------------------------------------------------
(* PatientInput: the request schema *)

Fields ==
    <<"age", "gender", "donor_type", "comorbidity_score", "disease_type",
      "conditioning_intensity", "prior_transplants",
      "time_from_diagnosis_days", "treatment_days">>

FieldSet == {Fields[i] : i \in 1..Len(Fields)}

IntFields ==
    {"age", "comorbidity_score", "prior_transplants",
     "time_from_diagnosis_days", "treatment_days"}

\* Field(..., ge=, le=)
Ge(f) ==
    CASE f = "age" -> AgeMin
      [] f = "comorbidity_score" -> 0
      [] f = "prior_transplants" -> 0
      [] f = "time_from_diagnosis_days" -> 1
      [] f = "treatment_days" -> 1

Le(f) ==
    CASE f = "age" -> AgeMax
      [] f = "comorbidity_score" -> ComorbidityMax
      [] f = "prior_transplants" -> 1
      [] f = "time_from_diagnosis_days" -> TimeFromDiagnosisMax
      [] f = "treatment_days" -> TreatmentDaysMax

\* mutant: a third value added to the list of genders
validate_gender_lenient(v) == v \in {"Male", "Female", "Other"}

validate_gender(v) == v \in {"Male", "Female"}

validate_donor_type(v) ==
    v \in {"Matched sibling", "Matched unrelated", "Haploidentical", "Cord blood"}

validate_disease_type(v) == v \in {"AML", "ALL", "MDS", "Lymphoma", "Other"}

validate_conditioning_intensity(v) == v \in {"Myeloablative", "Reduced-intensity"}

\* one field of a JSON body (a record holding the keys that were sent)
FieldValid(body, f) ==
    /\ f \in DOMAIN body
    /\ IF f \in IntFields
         THEN body[f] >= Ge(f) /\ body[f] <= Le(f)
         ELSE CASE f = "gender" -> validate_gender(body[f])
                [] f = "donor_type" -> validate_donor_type(body[f])
                [] f = "disease_type" -> validate_disease_type(body[f])
                [] f = "conditioning_intensity" ->
                       validate_conditioning_intensity(body[f])

\* mutant: validation stops at the first field that fails
PatientInput_first(body) ==
    LET bad == {f \in FieldSet : ~FieldValid(body, f)}
        first == {Fields[i] : i \in {j \in 1..Len(Fields) :
                     /\ Fields[j] \in bad
                     /\ \A k \in 1..(j - 1) : Fields[k] \notin bad}}
    IN  [ok |-> bad = {}, errors |-> first]

\* every field is validated; the error lists each field that failed
PatientInput(body) ==
    LET bad == {f \in FieldSet : ~FieldValid(body, f)}
    IN  [ok |-> bad = {}, errors |-> bad]

-----------------------------------------------------------------------------
(* Request bodies sent by the clients *)

\* tests/test_api.py valid_patient_data
ValidPatient ==
    [age |-> 45, gender |-> "Female", donor_type |-> "Matched sibling",
     comorbidity_score |-> 1, disease_type |-> "AML",
     conditioning_intensity |-> "Reduced-intensity", prior_transplants |-> 0,
     time_from_diagnosis_days |-> 180, treatment_days |-> 30]

\* every field at the upper end of its range
EdgePatient ==
    [age |-> AgeMax, gender |-> "Male", donor_type |-> "Cord blood",
     comorbidity_score |-> ComorbidityMax, disease_type |-> "Other",
     conditioning_intensity |-> "Myeloablative", prior_transplants |-> 1,
     time_from_diagnosis_days |-> TimeFromDiagnosisMax,
     treatment_days |-> TreatmentDaysMax]

Patients == {ValidPatient, EdgePatient}

Without(body, fs) == [f \in (DOMAIN body) \ fs |-> body[f]]

\* the invalid bodies of tests/test_api.py: test_invalid_age,
\* test_invalid_gender, test_invalid_donor_type, test_missing_fields
TestInvalidBodies ==
    { [ValidPatient EXCEPT !.age = 15],
      [ValidPatient EXCEPT !.gender = "Other"],
      [ValidPatient EXCEPT !.donor_type = "Invalid donor"],
      [age |-> 45, gender |-> "Female"] }

\* further invalid bodies: one step outside a range, a value outside an
\* enum, two violations at once, one key missing
InvalidBodies ==
    TestInvalidBodies \cup
    { [ValidPatient EXCEPT !.age = AgeMax + 1],
      [ValidPatient EXCEPT !.prior_transplants = 2],
      [EdgePatient EXCEPT !.treatment_days = 0],
      [EdgePatient EXCEPT !.age = AgeMin - 1, !.disease_type = "CML"],
      Without(EdgePatient, {"conditioning_intensity"}) }

Bodies == Patients \cup InvalidBodies

\* the bodies sent to the running server: the patients and the bodies of
\* test_invalid_gender and test_missing_fields
RequestBodies ==
    Patients \cup {[ValidPatient EXCEPT !.gender = "Other"],
                   [age |-> 45, gender |-> "Female"]}

Clients == {"10.0.0.1", "10.0.0.2"}

-----------------------------------------------------------------------------
(* Model artifacts that joblib.load can return *)

\* scripts/export_model.py: the columns that are not categorical, in order
NumericFeatures ==
    <<"age", "comorbidity_score", "prior_transplants",
      "time_from_diagnosis_days", "treatment_days">>

CategoricalFeatures ==
    <<"gender", "donor_type", "disease_type", "conditioning_intensity">>

\* make_preprocessor: the unfitted ColumnTransformer([('num', ...),
\* ('cat', ...)]); the encoder has no categories before fit
make_preprocessor(categorical_features, numeric_features) ==
    << [name |-> "num", steps |-> {"imputer", "scaler"},
        features |-> numeric_features, names_out |-> <<>>,
        has_names_out |-> FALSE],
       [name |-> "cat", steps |-> {"imputer", "onehot"},
        features |-> categorical_features, names_out |-> <<>>,
        has_names_out |-> TRUE] >>

\* the values of the categorical columns, in the order in which sorting
\* puts them
SortedLevels ==
    [gender |-> <<"Female", "Male">>,
     donor_type |-> <<"Cord blood", "Haploidentical", "Matched sibling",
                      "Matched unrelated">>,
     disease_type |-> <<"ALL", "AML", "Lymphoma", "MDS", "Other">>,
     conditioning_intensity |-> <<"Myeloablative", "Reduced-intensity">>]

\* OneHotEncoder.fit: categories_[j] holds the values found in column j of
\* the rows X, sorted
categories_(features, X) ==
    [j \in 1..Len(features) |->
        SelectSeq(SortedLevels[features[j]],
                  LAMBDA v : \E i \in 1..Len(X) : X[i][features[j]] = v)]

\* OneHotEncoder.get_feature_names_out(input_features), columns 1..j:
\* feature_level for every category of every column
RECURSIVE get_feature_names_out(_, _, _)
get_feature_names_out(categories, input_features, j) ==
    IF j = 0 THEN <<>>
    ELSE get_feature_names_out(categories, input_features, j - 1) \o
            [k \in 1..Len(categories[j]) |->
                input_features[j] \o "_" \o categories[j][k]]

\* ColumnTransformer.fit(X): the encoder learns its categories from X
fit(preprocessor, X) ==
    [k \in 1..Len(preprocessor) |->
        IF "onehot" \in preprocessor[k].steps
          THEN [preprocessor[k] EXCEPT !.names_out =
                   get_feature_names_out(
                       categories_(preprocessor[k].features, X),
                       preprocessor[k].features,
                       Len(preprocessor[k].features))]
          ELSE preprocessor[k]]

\* the columns of ColumnTransformer.transform: the outputs of transformers
\* 1..k side by side, in the order the transformers are listed
RECURSIVE OutputColumns(_, _)
OutputColumns(ts, k) ==
    IF k = 0 THEN <<>>
    ELSE OutputColumns(ts, k - 1) \o
            (IF "onehot" \in ts[k].steps THEN ts[k].names_out
                                         ELSE ts[k].features)

\* the global feature_info holds a reference to the unpickled metadata that
\* the trainer wrote beside the pipeline
TrainerFeatureInfo == "feature_info"

\* the metadata itself: the dict the trainer dumps
FeatureInfo ==
    [categorical_features |-> CategoricalFeatures,
     numeric_features |-> NumericFeatures,
     feature_names |-> Fields]

\* rows of a training set: in the 2400 rows the trainer fits on, every
\* value of every categorical column occurs
X_train ==
    << ValidPatient,
       EdgePatient,
       [ValidPatient EXCEPT !.donor_type = "Matched unrelated",
                            !.disease_type = "ALL"],
       [ValidPatient EXCEPT !.donor_type = "Haploidentical",
                            !.disease_type = "MDS"],
       [EdgePatient EXCEPT !.disease_type = "Lymphoma"] >>

\* Pipeline([('preproc', preprocessor), ('xgb', xgb_clf)]) after fit.  The
\* fitted classifier's outputs are data of the artifact: its importance
\* scores, its probability for each row, and the rows it rejects (on which
\* transform, and so predict_proba, raises)
TrainedPipeline(scores, proba, raises) ==
    [steps |-> {"preproc", "xgb"},
     transformers |->
         fit(make_preprocessor(CategoricalFeatures, NumericFeatures), X_train),
     has_importances |-> TRUE,
     importances |-> scores,
     proba |-> proba,
     rejects |-> raises]

ScoresA ==
    <<310, 120, 45, 80, 60, 15, 15, 5, 70, 95, 40, 10, 20, 25, 30, 5, 35, 20>>

\* ties between scores, and most of the credit on one-hot columns
ScoresB ==
    <<50, 50, 0, 50, 0, 0, 0, 0, 0, 400, 0, 0, 0, 0, 0, 0, 250, 200>>

\* predict_proba(row)[0, 1] of a fitted classifier, for every row
ProbaBoundary ==
    [row \in Bodies |-> IF row = ValidPatient THEN Threshold
                        ELSE IF row = EdgePatient THEN Threshold + 1 ELSE 250]

ProbaExtreme ==
    [row \in Bodies |-> IF row = ValidPatient THEN 0
                        ELSE IF row = EdgePatient THEN Scale ELSE 250]

ProbaMid ==
    [row \in Bodies |-> IF row = ValidPatient THEN 732
                        ELSE IF row = EdgePatient THEN 118 ELSE 250]

\* two artifacts of the trainer
TrainerA == TrainedPipeline(ScoresA, ProbaBoundary, {})

TrainerB == TrainedPipeline(ScoresB, ProbaExtreme, {})

\* a pipeline whose transform rejects one of the rows
Rejecting == TrainedPipeline(ScoresA, ProbaMid, {EdgePatient})

\* a pipeline whose classifier step has another name
RenamedStep ==
    [TrainedPipeline(ScoresA, ProbaMid, {}) EXCEPT !.steps = {"preproc", "clf"}]

\* a classifier without feature_importances_
NoImportances ==
    [TrainedPipeline(<<>>, ProbaExtreme, {}) EXCEPT !.has_importances = FALSE]

\* an encoder without get_feature_names_out: 18 scores, 5 names
NoNamesOut ==
    [TrainedPipeline(ScoresB, ProbaBoundary, {}) EXCEPT
        !.transformers[2].has_names_out = FALSE]

\* a pipeline fitted on three numeric columns only
ThreeNumeric ==
    [TrainedPipeline(<<600, 300, 100>>, ProbaMid, {}) EXCEPT
        !.transformers = << [name |-> "num", steps |-> {"imputer", "scaler"},
                             features |-> <<"age", "comorbidity_score",
                                            "treatment_days">>,
                             names_out |-> <<>>, has_names_out |-> FALSE] >>]

\* an object that is no usable pipeline: every call on it raises
Unusable ==
    [TrainedPipeline(<<>>, ProbaMid, Patients) EXCEPT
        !.steps = {}, !.transformers = <<>>, !.has_importances = FALSE]

\* the global model holds a reference to the unpickled object
Artifacts ==
    {"TrainerA", "TrainerB", "Rejecting", "RenamedStep", "NoImportances",
     "NoNamesOut", "ThreeNumeric", "Unusable"}

Pipeline(ref) ==
    CASE ref = "TrainerA" -> TrainerA
      [] ref = "TrainerB" -> TrainerB
      [] ref = "Rejecting" -> Rejecting
      [] ref = "RenamedStep" -> RenamedStep
      [] ref = "NoImportances" -> NoImportances
      [] ref = "NoNamesOut" -> NoNamesOut
      [] ref = "ThreeNumeric" -> ThreeNumeric
      [] ref = "Unusable" -> Unusable

-----------------------------------------------------------------------------
(* get_feature_importance *)

\* the columns the fitted ColumnTransformer selects by name
RequiredColumns(pipeline) ==
    UNION { {pipeline.transformers[i].features[j] :
                j \in 1..Len(pipeline.transformers[i].features)} :
            i \in 1..Len(pipeline.transformers) }

\* RequiredColumns, tabulated once per artifact
RequiredColumnsOf ==
    [ref \in Artifacts |-> RequiredColumns(Pipeline(ref))] @@ <<>>

\* model.named_steps['preproc'].transform(patient_data) raises
transform_raises(m, patient_data) ==
    \/ patient_data \in Pipeline(m).rejects
    \/ ~(RequiredColumnsOf[m] \subseteq DOMAIN patient_data)

\* feature_names after the loop over transformers_[1..k]; Raise is reported
\* through ok = FALSE (transformer.named_steps['onehot'] missing)
RECURSIVE FeatureNames(_, _)
FeatureNames(ts, k) ==
    IF k = 0 THEN [ok |-> TRUE, names |-> <<>>]
    ELSE LET prev == FeatureNames(ts, k - 1)
             t == ts[k]
         IN  IF ~prev.ok THEN prev
             ELSE IF t.name = "num"
                  THEN [ok |-> TRUE, names |-> prev.names \o t.features]
             ELSE IF t.name = "cat"
                  THEN IF "onehot" \notin t.steps
                         THEN [ok |-> FALSE, names |-> prev.names]
                       ELSE IF t.has_names_out
                         THEN [ok |-> TRUE, names |-> prev.names \o t.names_out]
                       ELSE prev
             ELSE prev

\* importance_dict[key] = value on an insertion-ordered dict of <<key, value>>
DictSet(d, key, value) ==
    IF \E i \in 1..Len(d) : d[i][1] = key
      THEN [i \in 1..Len(d) |-> IF d[i][1] = key THEN <<key, value>> ELSE d[i]]
      ELSE Append(d, <<key, value>>)

\* importance_dict after the loop over feature_importance[1..k]
RECURSIVE ImportanceDict(_, _, _)
ImportanceDict(scores, names, k) ==
    IF k = 0 THEN <<>>
    ELSE LET d == ImportanceDict(scores, names, k - 1)
         IN  IF k <= Len(names) THEN DictSet(d, names[k], scores[k]) ELSE d

\* sorted(items, key=lambda x: x[1], reverse=True): stable, descending
RECURSIVE SortedByScore(_)
SortedByScore(items) ==
    IF items = <<>> THEN <<>>
    ELSE LET n == Len(items)
             front == SortedByScore(SubSeq(items, 1, n - 1))
             x == items[n]
             k == Cardinality({i \in 1..Len(front) : front[i][2] >= x[2]})
         IN  SubSeq(front, 1, k) \o <<x>> \o SubSeq(front, k + 1, Len(front))

\* mutant: the slice one entry too long
Head5_long(s) == SubSeq(s, 1, IF Len(s) < TopK + 1 THEN Len(s) ELSE TopK + 1)

Head5(s) == SubSeq(s, 1, IF Len(s) < TopK THEN Len(s) ELSE TopK)

\* mutant: the five first pairs, without the sort
Importance_unsorted(pipeline) ==
    IF "xgb" \notin pipeline.steps THEN Note
    ELSE IF ~pipeline.has_importances THEN Note
    ELSE IF "preproc" \notin pipeline.steps THEN Note
    ELSE LET fn == FeatureNames(pipeline.transformers,
                                Len(pipeline.transformers))
         IN  IF ~fn.ok THEN Note
             ELSE [kind |-> "importance",
                   items |-> Head5(
                       ImportanceDict(pipeline.importances, fn.names,
                                      Len(pipeline.importances)))]

\* the try block without the transform of the row: the result is a
\* function of the loaded pipeline alone
Importance(pipeline) ==
    IF "xgb" \notin pipeline.steps THEN Note
    ELSE IF ~pipeline.has_importances THEN Note
    ELSE IF "preproc" \notin pipeline.steps THEN Note
    ELSE LET fn == FeatureNames(pipeline.transformers,
                                Len(pipeline.transformers))
         IN  IF ~fn.ok THEN Note
             ELSE [kind |-> "importance",
                   items |-> Head5(SortedByScore(
                       ImportanceDict(pipeline.importances, fn.names,
                                      Len(pipeline.importances))))]

\* Importance, tabulated once per artifact
ImportanceOf == [ref \in Artifacts |-> Importance(Pipeline(ref))] @@ <<>>

\* the try block: any exception inside returns the note
get_feature_importance(m, patient_data) ==
    IF m = None THEN Note
    ELSE IF ImportanceOf[m] = Note THEN Note
    ELSE IF transform_raises(m, patient_data) THEN Note
    ELSE ImportanceOf[m]

-----------------------------------------------------------------------------
(* The limiter: Limiter(key_func=get_remote_address), "10/minute", with the
   default fixed-window strategy on in-memory storage.  An entry counts the
   hits of one client and expires RateWindow seconds after its first hit;
   ttl is the time left, 0 when there is no live entry. *)

NoEntry == [hits |-> 0, ttl |-> 0]

\* mutant: the limit compared with <, so that the 10th call is refused
limiter_hit_early(st, key) ==
    LET live == st[key].ttl > 0
        n == (IF live THEN st[key].hits ELSE 0) + 1
    IN  [storage |-> [st EXCEPT ![key] =
                         [hits |-> n,
                          ttl |-> IF live THEN st[key].ttl ELSE RateWindow]],
         allowed |-> n < RateLimit]

\* storage.incr(key, expiry) <= limit.amount
limiter_hit(st, key) ==
    LET live == st[key].ttl > 0
        n == (IF live THEN st[key].hits ELSE 0) + 1
    IN  [storage |-> [st EXCEPT ![key] =
                         [hits |-> n,
                          ttl |-> IF live THEN st[key].ttl ELSE RateWindow]],
         allowed |-> n <= RateLimit]

-----------------------------------------------------------------------------
(* Responses *)

Absent == [kind |-> "absent"]

\* what handling a /predict request produced
PredictResponse(client, body, status, detail, probability, prediction, fi, calls) ==
    [op |-> "predict", client |-> client, body |-> body, status |-> status,
     detail |-> detail, probability |-> probability,
     prediction |-> prediction, feature_importance |-> fi, calls |-> calls]

NoResponse == [op |-> "none", status |-> 0]

-----------------------------------------------------------------------------
(* predict_survival: the body of the handler, run on a validated patient
   that passed the limiter.  The result holds the globals as the handler
   leaves them and the calls it made. *)

\* Pipeline.predict_proba transforms the row first
predict_proba_raises(m, row) == transform_raises(m, row)

\* mutant: the threshold compared with >=
prediction_class_ge(probability) ==
    IF probability >= Threshold THEN "Likely to survive" ELSE "At risk"

\* "Likely to survive" if probability > 0.5 else "At risk"
prediction_class(probability) ==
    IF probability > Threshold THEN "Likely to survive" ELSE "At risk"

\* mutant: the except branch without error_count += 1
Failure_uncounted(m, pc, ec, calls) ==
    [status |-> 500, probability |-> 0, prediction |-> "",
     feature_importance |-> Absent, model |-> m,
     prediction_count |-> pc, error_count |-> ec,
     calls |-> calls \cup {"logger.error"}]

\* the except branch: count the error, log it, raise HTTPException(500)
Failure(m, pc, ec, calls) ==
    [status |-> 500, probability |-> 0, prediction |-> "",
     feature_importance |-> Absent, model |-> m,
     prediction_count |-> pc, error_count |-> ec + 1,
     calls |-> calls \cup {"logger.error"}]

\* mutant: the handler reloads the model from another file
Success_reload(m, patient, probability, pc, ec) ==
    LET feature_importance == get_feature_importance(m, patient)
    IN  [status |-> 200, probability |-> probability,
         prediction |-> prediction_class(probability),
         feature_importance |-> feature_importance, model |-> "TrainerB",
         prediction_count |-> pc + 1, error_count |-> ec,
         calls |-> {"predict_proba", "get_feature_importance", "logger.info"}
                   \cup (IF feature_importance = Note
                           THEN {"logger.warning"} ELSE {})]

\* mutant: prediction_count += 1 placed after the return
Success_uncounted(m, patient, probability, pc, ec) ==
    LET feature_importance == get_feature_importance(m, patient)
    IN  [status |-> 200, probability |-> probability,
         prediction |-> prediction_class(probability),
         feature_importance |-> feature_importance, model |-> m,
         prediction_count |-> pc, error_count |-> ec,
         calls |-> {"predict_proba", "get_feature_importance", "logger.info"}
                   \cup (IF feature_importance = Note
                           THEN {"logger.warning"} ELSE {})]

\* mutant: a failure of the explainability step reaches the except branch
Success_strict(m, patient, probability, pc, ec) ==
    LET feature_importance == get_feature_importance(m, patient)
    IN  IF feature_importance = Note
          THEN Failure(m, pc, ec, {"predict_proba", "get_feature_importance"})
          ELSE [status |-> 200, probability |-> probability,
                prediction |-> prediction_class(probability),
                feature_importance |-> feature_importance, model |-> m,
                prediction_count |-> pc + 1, error_count |-> ec,
                calls |-> {"predict_proba", "get_feature_importance",
                           "logger.info"}]

\* the try block once predict_proba has returned
Success(m, patient, probability, pc, ec) ==
    LET feature_importance == get_feature_importance(m, patient)
    IN  [status |-> 200, probability |-> probability,
         prediction |-> prediction_class(probability),
         feature_importance |-> feature_importance, model |-> m,
         prediction_count |-> pc + 1, error_count |-> ec,
         calls |-> {"predict_proba", "get_feature_importance", "logger.info"}
                   \cup (IF feature_importance = Note
                           THEN {"logger.warning"} ELSE {})]

\* mutant: the counters are written from the values read when the last
\* response was sent, so that increments of overlapping requests are lost
predict_survival_stale(m, patient, pc, ec) ==
    IF m = None
      THEN Failure(m, sent[200], sent[500], {})
    ELSE IF predict_proba_raises(m, patient)
      THEN Failure(m, sent[200], sent[500], {"predict_proba"})
    ELSE Success(m, patient, Pipeline(m).proba[patient], sent[200], sent[500])

predict_survival(m, patient, pc, ec) ==
    IF m = None
      THEN \* model.predict_proba: AttributeError on None
           Failure(m, pc, ec, {})
    ELSE IF predict_proba_raises(m, patient)
      THEN Failure(m, pc, ec, {"predict_proba"})
    ELSE Success(m, patient, Pipeline(m).proba[patient], pc, ec)

-----------------------------------------------------------------------------
(* State after the module is imported *)

Statuses == {200, 429, 500}

Slots == {1, 2}

Idle == [pc |-> "idle"]

\* time advances in steps of half a rate-limit window
Step == RateWindow \div 2

Init ==
    /\ phase = "created"
    /\ model = None
    /\ feature_info = None
    /\ prediction_count = 0
    /\ error_count = 0
    /\ storage = [c \in Clients |-> NoEntry]
    /\ conns = [s \in Slots |-> Idle]
    /\ resp = NoResponse
    /\ seen = [p \in Bodies |-> -1]
    /\ recent = [c \in Clients |-> <<0, 0>>]
    /\ sent = [s \in Statuses |-> 0]
    /\ overlap = FALSE
    /\ files = NoFiles
    /\ trainer = NoRun
    /\ rng = NoGenerator
    /\ datasets = <<>>

-----------------------------------------------------------------------------
(* Startup: load_model *)

Missing == "Missing"

\* what the two paths hold when the process starts
Disks ==
    {[model |-> a, info |-> i] :
        a \in Artifacts \cup {Missing}, i \in {TrainerFeatureInfo, Missing}}

\* mutant: the except branch logs the failure and does not raise again
load_model_swallow(disk) ==
    /\ phase = "created"
    /\ phase' = "serving"
    /\ IF disk.model = Missing
         THEN UNCHANGED <<model, feature_info>>
         ELSE /\ model' = disk.model
              /\ IF disk.info = Missing
                   THEN UNCHANGED feature_info
                   ELSE feature_info' = disk.info
    /\ UNCHANGED <<prediction_count, error_count, storage, conns, resp,
                   seen, recent, sent, overlap, files, trainer,
                   rng, datasets>>

\* joblib.load(model_path); joblib.load(info_path); any failure is logged
\* and raised again, which aborts the startup of the server
load_model(disk) ==
    /\ phase = "created"
    /\ IF disk.model = Missing
         THEN /\ phase' = "aborted"
              /\ UNCHANGED <<model, feature_info>>
         ELSE /\ model' = disk.model
              /\ IF disk.info = Missing
                   THEN /\ phase' = "aborted"
                        /\ UNCHANGED feature_info
                   ELSE /\ phase' = "serving"
                        /\ feature_info' = disk.info
    /\ UNCHANGED <<prediction_count, error_count, storage, conns, resp,
                   seen, recent, sent, overlap, files, trainer,
                   rng, datasets>>

-----------------------------------------------------------------------------
(* Requests.  The application answers while it is imported ("created": the
   tests' TestClient(app) sends requests without running the startup event)
   and while it serves; an aborted startup ends the process. *)

Answering == phase \in {"created", "serving"}

\* /predict requests answered by the route function or by the limiter
Handled == sent[200] + sent[429] + sent[500]

Tally(r) ==
    IF r.op = "predict" /\ r.status \in Statuses
      THEN [sent EXCEPT ![r.status] = @ + 1] ELSE sent

\* 422: request validation failed before the route function was called
Response422(c, body) ==
    PredictResponse(c, body, 422, PatientInput(body).errors, 0, "", Absent,
                    {"PatientInput"})

\* 429: _rate_limit_exceeded_handler
Response429(c, body) ==
    PredictResponse(c, body, 429, {}, 0, "", Absent, {"PatientInput", "limiter"})

HandlerResponse(c, body, r) ==
    PredictResponse(c, body, r.status, {}, r.probability, r.prediction,
                    r.feature_importance,
                    {"PatientInput", "limiter"} \cup r.calls)

\* the response of the route function behind @limiter.limit("10/minute"):
\* 429 from the limiter, or what the handler body answers
RouteResponse(c, patient) ==
    IF ~limiter_hit(storage, c).allowed
      THEN Response429(c, patient)
      ELSE HandlerResponse(c, patient,
               predict_survival(model, patient, prediction_count, error_count))

\* mutant: a request over the limit is answered 429 and handled all the same
Route_queued(c, patient) ==
    LET h == limiter_hit(storage, c)
        r == predict_survival(model, patient, prediction_count, error_count)
    IN  /\ storage' = h.storage
        /\ recent' = [recent EXCEPT ![c][1] = @ + 1]
        /\ model' = r.model
        /\ prediction_count' = r.prediction_count
        /\ error_count' = r.error_count
        /\ seen' = IF h.allowed /\ r.status = 200 /\ seen[patient] < 0
                     THEN [seen EXCEPT ![patient] = r.probability]
                     ELSE seen

\* the state left by the route function: the limiter check and the handler
\* body run without suspension
Route(c, patient) ==
    LET h == limiter_hit(storage, c)
    IN  /\ storage' = h.storage
        /\ recent' = [recent EXCEPT ![c][1] = @ + 1]
        /\ IF ~h.allowed
             THEN UNCHANGED <<model, prediction_count, error_count, seen>>
             ELSE LET r == predict_survival(model, patient, prediction_count,
                                            error_count)
                  IN  /\ model' = r.model
                      /\ prediction_count' = r.prediction_count
                      /\ error_count' = r.error_count
                      /\ seen' = IF r.status = 200 /\ seen[patient] < 0
                                   THEN [seen EXCEPT ![patient] = r.probability]
                                   ELSE seen

AllIdle == \A s \in Slots : conns[s].pc = "idle"

InFlight == Cardinality({s \in Slots : conns[s].pc # "idle"})

\* a request arrives on a free connection; its body is read by await
\* receive()
Receive(s, c, body) ==
    /\ Answering
    /\ conns[s].pc = "idle"
    /\ conns' = [conns EXCEPT ![s] =
                    [pc |-> "received", client |-> c, body |-> body]]
    /\ UNCHANGED <<phase, model, feature_info, prediction_count, error_count,
                   storage, resp, seen, recent, sent, overlap, files, trainer,
                   rng, datasets>>

\* mutant: the limiter is consulted when the body is validated, whatever
\* the outcome of the validation
Validate_limit_first(s) ==
    /\ conns[s].pc = "received"
    /\ conns' = [conns EXCEPT ![s] =
                    IF PatientInput(conns[s].body).ok
                      THEN [conns[s] EXCEPT !.pc = "validated"]
                      ELSE [pc |-> "responding",
                            out |-> Response422(conns[s].client, conns[s].body)]]
    /\ storage' = limiter_hit(storage, conns[s].client).storage
    /\ UNCHANGED <<phase, model, feature_info, prediction_count, error_count,
                   resp, seen, recent, sent, overlap, files, trainer,
                   rng, datasets>>

\* the body is parsed into PatientInput before the route function is
\* called; a body that fails is answered 422
Validate(s) ==
    /\ conns[s].pc = "received"
    /\ conns' = [conns EXCEPT ![s] =
                    IF PatientInput(conns[s].body).ok
                      THEN [conns[s] EXCEPT !.pc = "validated"]
                      ELSE [pc |-> "responding",
                            out |-> Response422(conns[s].client, conns[s].body)]]
    /\ UNCHANGED <<phase, model, feature_info, prediction_count, error_count,
                   storage, resp, seen, recent, sent, overlap, files, trainer,
                   rng, datasets>>

\* the route function runs in one turn of the event loop; its response
\* waits for await send()
Handle(s) ==
    /\ conns[s].pc = "validated"
    /\ conns' = [conns EXCEPT ![s] =
                    [pc |-> "responding",
                     out |-> RouteResponse(conns[s].client, conns[s].body)]]
    /\ Route(conns[s].client, conns[s].body)
    /\ overlap' = (overlap \/ InFlight > 1)
    /\ UNCHANGED <<phase, feature_info, resp, sent, files, trainer,
                   rng, datasets>>

\* the response is sent
Respond(s) ==
    /\ conns[s].pc = "responding"
    /\ resp' = conns[s].out
    /\ sent' = Tally(conns[s].out)
    /\ conns' = [conns EXCEPT ![s] = Idle]
    /\ UNCHANGED <<phase, model, feature_info, prediction_count, error_count,
                   storage, seen, recent, overlap, files, trainer,
                   rng, datasets>>

\* a GET /health or GET /metrics request arrives on a free connection
ReceiveGet(s, op) ==
    /\ Answering
    /\ conns[s].pc = "idle"
    /\ conns' = [conns EXCEPT ![s] = [pc |-> "get", op |-> op]]
    /\ UNCHANGED <<phase, model, feature_info, prediction_count, error_count,
                   storage, resp, seen, recent, sent, overlap, files, trainer,
                   rng, datasets>>

\* mutant: model_loaded reported as a constant
health_check_static(s) ==
    /\ conns[s].pc = "get"
    /\ conns[s].op = "health"
    /\ conns' = [conns EXCEPT ![s] =
                    [pc |-> "responding",
                     out |-> [op |-> "health", status |-> 200,
                              body |-> [status |-> "healthy",
                                        model_loaded |-> TRUE]]]]
    /\ UNCHANGED <<phase, model, feature_info, prediction_count, error_count,
                   storage, resp, seen, recent, sent, overlap, files, trainer,
                   rng, datasets>>

\* GET /health: the route function builds the response, which waits for
\* await send()
health_check(s) ==
    /\ conns[s].pc = "get"
    /\ conns[s].op = "health"
    /\ conns' = [conns EXCEPT ![s] =
                    [pc |-> "responding",
                     out |-> [op |-> "health", status |-> 200,
                              body |-> [status |-> "healthy",
                                        model_loaded |-> model # None]]]]
    /\ UNCHANGED <<phase, model, feature_info, prediction_count, error_count,
                   storage, resp, seen, recent, sent, overlap, files, trainer,
                   rng, datasets>>

\* GET /metrics
get_metrics(s) ==
    /\ conns[s].pc = "get"
    /\ conns[s].op = "metrics"
    /\ conns' = [conns EXCEPT ![s] =
                    [pc |-> "responding",
                     out |-> [op |-> "metrics", status |-> 200,
                              body |-> [prediction_count |-> prediction_count,
                                        error_count |-> error_count]]]]
    /\ UNCHANGED <<phase, model, feature_info, prediction_count, error_count,
                   storage, resp, seen, recent, sent, overlap, files, trainer,
                   rng, datasets>>

\* the server within one rate-limit window: the startup runs while no
\* request is in flight
Next ==
    \/ \E disk \in Disks : AllIdle /\ load_model(disk)
    \/ \E s \in Slots, c \in Clients, body \in RequestBodies :
          Handled + InFlight < MaxRequests /\ Receive(s, c, body)
    \/ \E s \in Slots : Validate(s)
    \/ \E s \in Slots : Handle(s)
    \/ \E s \in Slots : Respond(s)
    \/ \E s \in Slots, op \in {"health", "metrics"} : ReceiveGet(s, op)
    \/ \E s \in Slots : health_check(s)
    \/ \E s \in Slots : get_metrics(s)

Spec == Init /\ [][Next]_vars

-----------------------------------------------------------------------------
(* The rate limit over time: a server that has loaded the trainer's
   artifact and its clock.  One client opened its window Step seconds ago
   with one call and has made calls since, all but one of its window *)

InitRate ==
    /\ phase = "serving"
    /\ model = "TrainerA"
    /\ feature_info = TrainerFeatureInfo
    /\ prediction_count = RateLimit - 1
    /\ error_count = 0
    /\ storage = [c \in Clients |->
                     IF c = "10.0.0.1"
                       THEN [hits |-> RateLimit - 1, ttl |-> RateWindow - Step]
                       ELSE NoEntry]
    /\ conns = [s \in Slots |-> Idle]
    /\ sent = [s \in Statuses |-> IF s = 200 THEN RateLimit - 1 ELSE 0]
    /\ resp = HandlerResponse("10.0.0.1", ValidPatient,
                  predict_survival("TrainerA", ValidPatient, RateLimit - 2, 0))
    /\ seen = [p \in Bodies |->
                  IF p = ValidPatient THEN Pipeline("TrainerA").proba[p] ELSE -1]
    /\ recent = [c \in Clients |->
                    IF c = "10.0.0.1" THEN <<RateLimit - 2, 1>> ELSE <<0, 0>>]
    /\ overlap = FALSE
    /\ files = NoFiles
    /\ trainer = NoRun
    /\ rng = NoGenerator
    /\ datasets = <<>>

\* Step seconds pass: entries whose window has ended expire
Tick ==
    /\ Answering
    /\ storage' = [c \in Clients |->
                      IF storage[c].ttl <= Step THEN NoEntry
                      ELSE [storage[c] EXCEPT !.ttl = @ - Step]]
    /\ recent' = [c \in Clients |-> <<0, recent[c][1]>>]
    /\ UNCHANGED <<phase, model, feature_info, prediction_count, error_count,
                   conns, resp, seen, sent, overlap, files, trainer,
                   rng, datasets>>

RateBodies == {ValidPatient, [ValidPatient EXCEPT !.age = 15]}

NextRate ==
    \/ Tick
    \/ \E s \in Slots, c \in Clients, body \in RateBodies :
          Handled + InFlight < RateLimit - 1 + MaxRateRequests
              /\ Receive(s, c, body)
    \/ \E s \in Slots : Validate(s)
    \/ \E s \in Slots : Handle(s)
    \/ \E s \in Slots : Respond(s)

SpecRate == InitRate /\ [][NextRate]_vars

-----------------------------------------------------------------------------
(* A server in which one client has used all but one call of its window *)

InitConc ==
    /\ phase = "serving"
    /\ model = "Rejecting"
    /\ feature_info = TrainerFeatureInfo
    /\ prediction_count = RateLimit - 1
    /\ error_count = 0
    /\ storage = [c \in Clients |->
                     IF c = "10.0.0.1"
                       THEN [hits |-> RateLimit - 1, ttl |-> RateWindow]
                       ELSE NoEntry]
    /\ conns = [s \in Slots |-> Idle]
    /\ sent = [s \in Statuses |-> IF s = 200 THEN RateLimit - 1 ELSE 0]
    /\ resp = HandlerResponse("10.0.0.1", ValidPatient,
                  predict_survival("Rejecting", ValidPatient, RateLimit - 2, 0))
    /\ seen = [p \in Bodies |->
                  IF p = ValidPatient THEN Pipeline("Rejecting").proba[p] ELSE -1]
    /\ recent = [c \in Clients |->
                    IF c = "10.0.0.1" THEN <<RateLimit - 1, 0>> ELSE <<0, 0>>]
    /\ overlap = FALSE
    /\ files = NoFiles
    /\ trainer = NoRun
    /\ rng = NoGenerator
    /\ datasets = <<>>

ConcBodies == Patients \cup {[ValidPatient EXCEPT !.age = 15]}

NextConc ==
    \/ \E s \in Slots, c \in Clients, body \in ConcBodies :
          Handled + InFlight < RateLimit - 1 + MaxConcRequests
              /\ Receive(s, c, body)
    \/ \E s \in Slots : Validate(s)
    \/ \E s \in Slots : Handle(s)
    \/ \E s \in Slots : Respond(s)

SpecConc == InitConc /\ [][NextConc]_vars

-----------------------------------------------------------------------------
(* get_feature_importance called on any row, before or after the load *)

Explain(row) ==
    /\ Answering
    /\ resp' = [op |-> "explain", status |-> 0, row |-> row,
                result |-> get_feature_importance(model, row)]
    /\ UNCHANGED <<phase, model, feature_info, prediction_count, error_count,
                   storage, conns, seen, recent, sent, overlap, files, trainer,
                   rng, datasets>>

NextExplain ==
    \/ \E disk \in Disks : load_model(disk)
    \/ \E row \in Bodies : Explain(row)

SpecExplain == Init /\ [][NextExplain]_vars

-----------------------------------------------------------------------------
(* PatientInput applied to request payloads: every field below its range, at
   its lower end, above its range or absent; every enum field valid, outside
   its enum or absent *)

StrFields == FieldSet \ IntFields

IntOptions(f) == <<Ge(f) - 1, Ge(f), Le(f) + 1>>

StrOptions(f) == <<ValidPatient[f], "Unknown">>

\* the payload that holds, for each field, the option picked for it; a pick
\* beyond the options leaves the key out
Payload(ints, strs) ==
    [f \in {g \in IntFields : ints[g] <= Len(IntOptions(g))} \cup
            {g \in StrFields : strs[g] <= Len(StrOptions(g))} |->
        IF f \in IntFields THEN IntOptions(f)[ints[f]]
                           ELSE StrOptions(f)[strs[f]]]

\* a payload arrives
InitParse ==
    /\ phase = "created"
    /\ model = None
    /\ feature_info = None
    /\ prediction_count = 0
    /\ error_count = 0
    /\ storage = [c \in Clients |-> NoEntry]
    /\ conns = [s \in Slots |-> Idle]
    /\ \E ints \in [IntFields -> 1..4], strs \in [StrFields -> 1..3] :
          resp = [op |-> "payload", status |-> 0, body |-> Payload(ints, strs)]
    /\ seen = [p \in Bodies |-> -1]
    /\ recent = [c \in Clients |-> <<0, 0>>]
    /\ sent = [s \in Statuses |-> 0]
    /\ overlap = FALSE
    /\ files = NoFiles
    /\ trainer = NoRun
    /\ rng = NoGenerator
    /\ datasets = <<>>

\* PatientInput(**payload): the record, or ValidationError with its errors
Parse ==
    /\ resp.op = "payload"
    /\ resp' = [op |-> "parsed", status |-> 0, body |-> resp.body,
                ok |-> PatientInput(resp.body).ok,
                errors |-> PatientInput(resp.body).errors]
    /\ UNCHANGED <<phase, model, feature_info, prediction_count, error_count,
                   storage, conns, seen, recent, sent, overlap, files, trainer,
                   rng, datasets>>

NextParse == Parse

SpecParse == InitParse /\ [][NextParse]_vars

-----------------------------------------------------------------------------
(* generate_synthetic_hct_data.  The numbers of numpy's generator are
   tabulated for the seeds of the model; the function is computed on them
   as the code computes it.  normal(45, 12), exponential(365) and
   normal(0, 10) are in thousandths, normal(0, 0.8) and rand() in
   millionths, each cut down to its grid. *)

\* the seeds given to the generator: 42 is the default of the function and
\* the seed of the tests, 123 the default of the trainer
Seeds == (0..MaxSeed) \cup {42, 123, 8890}

\* numpy's RandomState seeded with `seed`: Stream(seed)[n][i] holds element i
\* of the fourteen arrays of size n that the function draws, in the order of
\* its calls: normal(45, 12), choice of gender, choice of donor_type,
\* poisson(2.0), choice of disease_type, choice of conditioning_intensity,
\* binomial(1, 0.12), exponential(365), normal(0, 10), normal(0, 0.8),
\* rand() of survival, rand() of the three masks; a choice is the position
\* of the value chosen
Stream(seed) ==
    CASE seed = 0 ->
          <<<<<<66168, 2, 2, 2, 5, 2, 0, 572647, 4001, 2036160, 925596, 71036, 87129, 20218>>>>,
            <<<<66168, 2, 2, 4, 1, 2, 0, 585912, -3745, -768604, 944668, 414661, 774233, 568433>>,
              <<49801, 1, 2, 3, 1, 2, 1, 225909, 2751, 301541, 521848, 264555, 456150, 18789>>>>,
            <<<<66168, 1, 3, 4, 4, 2, 0, 56476, 22408, -193720, 617635, 943748, 437031, 666766>>,
              <<49801, 2, 4, 0, 4, 2, 0, 1056463, -15635, 1211513, 612095, 681820, 697631, 670637>>,
              <<56744, 1, 2, 0, 5, 2, 0, 269306, -5667, -266446, 616933, 359507, 60225, 210382>>>>,
            <<<<66168, 1, 4, 2, 4, 2, 0, 350235, 17874, -868641, 363710, 102044, 253291, 110375>>,
              <<49801, 2, 2, 0, 1, 1, 0, 1050439, -5696, 511788, 570196, 208876, 466310, 656329>>,
              <<56744, 1, 3, 0, 5, 2, 0, 417975, 1753, -308691, 438601, 161309, 244425, 138182>>,
              <<71890, 2, 2, 7, 3, 2, 0, 162614, -4626, -620610, 988373, 653108, 158969, 196582>>>>>>
      [] seed = 1 ->
          <<<<<<64492, 1, 1, 1, 1, 1, 0, 282495, -6118, 1395849, 204452, 878117, 27387, 670467>>>>,
            <<<<64492, 1, 1, 1, 4, 2, 0, 298572, 5643, 583980, 894606, 39054, 878142, 421107>>,
              <<37658, 1, 1, 2, 1, 1, 0, 55214, -5666, 298395, 85044, 169830, 98346, 957889>>>>,
            <<<<64492, 1, 2, 0, 4, 1, 0, 1156122, -10730, -680042, 447893, 287775, 678835, 491573>>,
              <<37658, 1, 1, 3, 5, 1, 0, 278049, 11419, 768656, 908595, 130028, 211628, 53362>>,
              <<38661, 1, 3, 3, 5, 1, 0, 429698, -11296, -173935, 293614, 19366, 265546, 574117>>>>,
            <<<<64492, 1, 1, 2, 1, 2, 0, 1641518, -1229, -553329, 491573, 589305, 694400, 663794>>,
              <<37658, 1, 3, 3, 5, 2, 0, 503329, -9358, -317403, 53362, 699758, 414179, 514889>>,
              <<38661, 1, 1, 3, 1, 2, 0, 120129, -2679, -549739, 574117, 102334, 49953, 944594>>,
              <<32124, 2, 2, 0, 3, 1, 0, 568385, 5303, -676165, 146728, 414055, 535896, 586555>>>>>>
      [] seed = 2 ->
          <<<<<<39998, 1, 2, 2, 4, 1, 0, 354258, -563, -888583, 513578, 184439, 785335, 853975>>>>,
            <<<<39998, 1, 2, 1, 4, 1, 0, 702252, -7479, -702487, 127159, 226012, 220306, 467787>>,
              <<44324, 1, 1, 1, 3, 2, 0, 248815, 90, -125148, 596745, 106945, 349826, 201743>>>>,
            <<<<39998, 1, 2, 2, 3, 1, 0, 157138, 16402, -1947815, 162298, 500008, 567144, 776559>>,
              <<44324, 1, 1, 1, 1, 1, 0, 230210, -2691, 90181, 700752, 889520, 427545, 535604>>,
              <<19365, 1, 1, 4, 3, 2, 0, 82243, 22313, 296355, 964551, 341613, 436747, 953742>>>>,
            <<<<39998, 1, 1, 0, 3, 1, 0, 256841, 5018, -250807, 436747, 544208, 406275, 993852>>,
              <<44324, 1, 1, 1, 1, 1, 0, 178563, -8443, 616809, 776559, 82094, 27202, 970580>>,
              <<19365, 1, 2, 4, 1, 1, 0, 576014, 0, -1494473, 535604, 366342, 247177, 800258>>,
              <<64683, 2, 2, 1, 3, 1, 0, 316641, 5423, 1384947, 953742, 850850, 67144, 601817>>>>>>
      [] seed = 3 ->
          <<<<<<66463, 1, 2, 2, 1, 1, 0, 11071, 4365, 1662059, 278487, 676254, 590862, 23981>>>>,
            <<<<66463, 1, 3, 0, 3, 2, 0, 326202, -16276, -1303326, 693137, 156867, 780314, 221957>>,
              <<50238, 1, 3, 1, 1, 2, 0, 8860, 3978, -511149, 440453, 544649, 306363, 387971>>>>,
            <<<<66463, 2, 1, 0, 3, 1, 0, 133519, -18635, -296541, 557840, 406519, 291792, 586252>>,
              <<50238, 2, 1, 2, 2, 2, 0, 91605, 6680, 840360, 361564, 468940, 457686, 283487>>,
              <<46157, 1, 2, 2, 3, 2, 0, 179206, 2858, 209050, 225054, 269235, 860533, 277977>>>>,
            <<<<66463, 2, 1, 2, 1, 1, 0, 35313, -4746, -294790, 283487, 201378, 362176, 689180>>,
              <<50238, 2, 2, 1, 3, 1, 1, 386759, -13958, -1450533, 277977, 514035, 707686, 373600>>,
              <<46157, 1, 1, 2, 4, 2, 0, 297871, -17328, 203628, 454622, 87229, 746746, 668134>>,
              <<22638, 1, 2, 2, 2, 2, 0, 163788, -2333, 851159, 205410, 483585, 691092, 339848>>>>>>
      [] seed = 4 ->
          <<<<<<45606, 2, 2, 3, 2, 2, 0, 80392, 4999, 265800, 8986, 386571, 44160, 956652>>>>,
            <<<<45606, 2, 2, 1, 4, 2, 0, 3294, 6186, 340057, 173165, 600742, 733380, 527908>>,
              <<50999, 2, 1, 1, 1, 2, 0, 178372, -880, 265802, 74948, 167972, 408443, 937571>>>>,
            <<<<45606, 2, 2, 3, 5, 2, 0, 482504, 6935, 1146621, 649805, 767404, 502533, 554740>>,
              <<50999, 1, 3, 0, 3, 2, 0, 191624, 360, 2123839, 396900, 178973, 686667, 624930>>,
              <<33049, 1, 1, 1, 5, 1, 0, 273962, 7261, -969333, 623916, 375575, 253679, 895501>>>>,
            <<<<45606, 2, 3, 1, 1, 2, 0, 370487, 13192, 1587961, 624930, 191446, 431822, 404825>>,
              <<50999, 1, 1, 0, 4, 2, 0, 187362, 6113, 21548, 895501, 497794, 830188, 331174>>,
              <<33049, 1, 3, 1, 1, 2, 0, 382981, -4415, 287045, 362853, 182445, 416776, 572138>>,
              <<53323, 1, 4, 5, 4, 2, 0, 184570, -11391, -1291634, 637557, 918383, 904667, 845443>>>>>>
      [] seed = 42 ->
          <<<<<<50960, 2, 2, 1, 1, 2, 0, 449406, -1383, -375580, 181824, 183404, 304242, 524756>>>>,
            <<<<50960, 2, 1, 0, 5, 1, 0, 271533, 8164, -342437, 366361, 785175, 514234, 46450>>,
              <<43340, 2, 1, 3, 4, 1, 0, 206421, -15239, -593926, 456069, 199673, 592414, 607544>>>>,
            <<<<50960, 1, 3, 0, 3, 2, 0, 81298, 15230, -480204, 440152, 34388, 662522, 546710>>,
              <<43340, 1, 2, 3, 3, 1, 0, 263540, 1222, 757951, 122038, 909320, 311711, 184854>>,
              <<52772, 1, 2, 1, 2, 1, 0, 327589, -5155, 232827, 495176, 258779, 520068, 969584>>>>,
            <<<<50960, 1, 2, 2, 2, 1, 0, 1230280, -6018, 658035, 546710, 939498, 88492, 388677>>,
              <<43340, 1, 2, 1, 2, 2, 0, 603101, 18522, -976675, 184854, 894827, 195982, 271349>>,
              <<52772, 1, 1, 2, 3, 2, 0, 132600, -135, 167090, 969584, 597899, 45227, 828737>>,
              <<63276, 2, 4, 1, 4, 1, 1, 37513, -10578, -1567737, 775132, 921874, 325330, 356753>>>>>>
      [] seed = 123 ->
          <<<<<<31972, 1, 2, 4, 2, 1, 0, 210704, 9973, -114698, 737995, 182491, 175451, 531551>>>>,
            <<<<31972, 1, 2, 3, 1, 2, 0, 277005, 4656, 1196661, 322958, 228263, 630976, 433701>>,
              <<56968, 2, 2, 2, 2, 1, 0, 367269, 7249, 597264, 361788, 293714, 92104, 430862>>>>,
            <<<<31972, 2, 2, 2, 1, 2, 0, 163916, -15063, -1484510, 312261, 944160, 115618, 866309>>,
              <<56968, 1, 2, 0, 3, 2, 0, 94575, -7486, -1423564, 426351, 501836, 317285, 250455>>,
              <<48395, 2, 2, 2, 3, 2, 0, 126923, 2403, -2200180, 893389, 623952, 414826, 483034>>>>,
            <<<<31972, 2, 2, 1, 4, 1, 0, 202844, -8796, -312720, 519485, 603060, 417022, 669313>>,
              <<56968, 1, 2, 2, 2, 2, 0, 817078, 2836, 459044, 612894, 545068, 681300, 585936>>,
              <<48395, 2, 1, 1, 2, 1, 0, 1053121, -8054, 270871, 120628, 342763, 875456, 624903>>,
              <<26924, 2, 2, 4, 1, 2, 0, 254341, -17277, -9465, 826340, 304120, 510422, 674689>>>>>>
      [] seed = 8890 ->
          <<<<<<81808, 1, 4, 3, 1, 1, 0, 231673, -23103, -521297, 486744, 992066, 330595, 950101>>>>,
            <<<<81808, 1, 2, 2, 3, 2, 0, 1765372, 9981, 10200, 987915, 311381, 69651, 59849>>,
              <<17277, 2, 2, 1, 5, 1, 0, 146498, 1728, -1436926, 817714, 916326, 764272, 311695>>>>,
            <<<<81808, 1, 2, 1, 3, 2, 0, 527452, -892, -49590, 230255, 621221, 24558, 568002>>,
              <<17277, 2, 1, 3, 5, 2, 1, 22526, -4076, -982743, 123631, 49284, 716637, 278649>>,
              <<47814, 2, 1, 4, 2, 2, 0, 136336, -12374, 257418, 882111, 560359, 387360, 50902>>>>,
            <<<<81808, 1, 1, 3, 4, 1, 0, 354343, -7812, 429924, 387184, 289538, 311612, 579145>>,
              <<17277, 2, 1, 4, 1, 1, 0, 18447, 15022, 545348, 50706, 484381, 737429, 841332>>,
              <<47814, 2, 1, 3, 2, 2, 0, 299956, -16774, 1496898, 447927, 475423, 136667, 103099>>,
              <<43930, 1, 2, 4, 1, 1, 1, 9075, 5153, 825254, 854603, 277599, 939484, 474863>>>>>>

\* mutant: a generator constructed once, which goes on from where the call
\* before left it instead of starting from the seed
RandomState_global(random_state) ==
    IF rng = NoGenerator
       THEN [seed |-> random_state, drawn |-> <<>>]
       ELSE [seed |-> (rng.seed + 1) % (MaxSeed + 1), drawn |-> <<>>]

\* np.random.RandomState(random_state): a new generator, at the start of
\* the stream of its seed; drawn holds the sizes of the arrays it has drawn
RandomState(random_state) == [seed |-> random_state, drawn |-> <<>>]

\* element i of the array of size n that generator g draws next, when the
\* arrays it has drawn had size n too
Drawn(g, n, i) == Stream(g.seed)[n][i][Len(g.drawn) + 1]

\* generator g after it has drawn `calls` more arrays of size n
Advanced(g, n, calls) ==
    [g EXCEPT !.drawn = @ \o [k \in 1..calls |-> n]]

\* ndarray.astype(int) of a value in thousandths: the fraction is dropped,
\* towards zero
astype_int(v) == IF v >= 0 THEN v \div 1000 ELSE -((-v) \div 1000)

\* ndarray.clip(lo, hi)
clip(v, lo, hi) == IF v < lo THEN lo ELSE IF v > hi THEN hi ELSE v

\* the largest risk, in millionths, below ln((1 - u) / u), for the values u
\* of rand() that decide a survival
LogitBelow(u) ==
    CASE u = 8986 -> 4703060
      [] u = 50706 -> 2929674
      [] u = 53362 -> 2875817
      [] u = 74948 -> 2513055
      [] u = 85044 -> 2375707
      [] u = 120628 -> 1986496
      [] u = 122038 -> 1973270
      [] u = 123631 -> 1958485
      [] u = 127159 -> 1926315
      [] u = 146728 -> 1760497
      [] u = 162298 -> 1641228
      [] u = 173165 -> 1563360
      [] u = 181824 -> 1504038
      [] u = 184854 -> 1483800
      [] u = 204452 -> 1358697
      [] u = 205410 -> 1352818
      [] u = 225054 -> 1236452
      [] u = 230255 -> 1206871
      [] u = 277977 -> 954518
      [] u = 278487 -> 951979
      [] u = 283487 -> 927230
      [] u = 293614 -> 877895
      [] u = 312261 -> 789570
      [] u = 322958 -> 740211
      [] u = 361564 -> 568582
      [] u = 361788 -> 567612
      [] u = 362853 -> 563002
      [] u = 363710 -> 559297
      [] u = 366361 -> 547860
      [] u = 387184 -> 459164
      [] u = 396900 -> 418398
      [] u = 426351 -> 296754
      [] u = 436747 -> 254374
      [] u = 438601 -> 246841
      [] u = 440152 -> 240545
      [] u = 440453 -> 239323
      [] u = 447893 -> 209187
      [] u = 447927 -> 209050
      [] u = 454622 -> 182012
      [] u = 456069 -> 176178
      [] u = 486744 -> 53036
      [] u = 491573 -> 33711
      [] u = 495176 -> 19296
      [] u = 513578 -> -54326
      [] u = 519485 -> -77980
      [] u = 521848 -> -87448
      [] u = 535604 -> -142658
      [] u = 546710 -> -187387
      [] u = 557840 -> -232401
      [] u = 570196 -> -282651
      [] u = 574117 -> -298669
      [] u = 596745 -> -391921
      [] u = 612095 -> -456128
      [] u = 612894 -> -459494
      [] u = 616933 -> -476551
      [] u = 617635 -> -479523
      [] u = 623916 -> -506204
      [] u = 624930 -> -510527
      [] u = 637557 -> -564777
      [] u = 649805 -> -618183
      [] u = 693137 -> -814827
      [] u = 700752 -> -850882
      [] u = 737995 -> -1035574
      [] u = 775132 -> -1237520
      [] u = 776559 -> -1245726
      [] u = 817714 -> -1500936
      [] u = 826340 -> -1559907
      [] u = 854603 -> -1771170
      [] u = 882111 -> -2012575
      [] u = 893389 -> -2125836
      [] u = 894606 -> -2138678
      [] u = 895501 -> -2148206
      [] u = 908595 -> -2296600
      [] u = 925596 -> -2520929
      [] u = 944668 -> -2837483
      [] u = 953742 -> -3026159
      [] u = 964551 -> -3303568
      [] u = 969584 -> -3461899
      [] u = 987915 -> -4403632
      [] u = 988373 -> -4442731

\* (u < 1 / (1 + np.exp(risk))).astype(int), which is risk < ln((1 - u) / u)
survival_of(u, risk) == IF risk <= LogitBelow(u) THEN 1 ELSE 0

Columns == Fields \o <<"survival">>

\* the columns that get missing values
NanColumns == <<"donor_type", "comorbidity_score", "conditioning_intensity">>

\* the dataset: the arrays are drawn in the order of the code; rows holds
\* the values, nan the cells set to np.nan afterwards; risk is in millionths
generate_synthetic_hct_data(n, random_state) ==
    LET g == RandomState(random_state)
        draw(call, i) == Drawn(Advanced(g, n, call - 1), n, i)
        choice(a, call, i) == a[draw(call, i)]
        age(i) == astype_int(clip(draw(1, i), 18000, 80000))
        gender(i) == choice(<<"Male", "Female">>, 2, i)
        donor_type(i) ==
            choice(<<"Matched sibling", "Matched unrelated",
                     "Haploidentical", "Cord blood">>, 3, i)
        comorbidity_score(i) == draw(4, i)
        disease_type(i) ==
            choice(<<"AML", "ALL", "MDS", "Lymphoma", "Other">>, 5, i)
        conditioning_intensity(i) ==
            choice(<<"Myeloablative", "Reduced-intensity">>, 6, i)
        prior_transplants(i) == draw(7, i)
        time_from_diagnosis_days(i) ==
            clip(astype_int(draw(8, i)), 10, 5000)
        treatment_days(i) ==
            clip(astype_int(30000 + comorbidity_score(i) * 5000 + draw(9, i)),
                 7, 365)
        risk(i) ==
            30000 * (age(i) - 40) + 400000 * comorbidity_score(i)
            + 600000 * prior_transplants(i)
            + (IF donor_type(i) = "Matched sibling" THEN -600000 ELSE 0)
            + (IF donor_type(i) = "Haploidentical" THEN 400000 ELSE 0)
            + (IF conditioning_intensity(i) = "Myeloablative"
                  THEN 300000 ELSE 0)
            + draw(10, i)
        survival(i) == survival_of(draw(11, i), risk(i))
    IN  [columns |-> Columns,
         rows |-> [i \in 1..n |->
                     [age |-> age(i), gender |-> gender(i),
                      donor_type |-> donor_type(i),
                      comorbidity_score |-> comorbidity_score(i),
                      disease_type |-> disease_type(i),
                      conditioning_intensity |-> conditioning_intensity(i),
                      prior_transplants |-> prior_transplants(i),
                      time_from_diagnosis_days |-> time_from_diagnosis_days(i),
                      treatment_days |-> treatment_days(i),
                      survival |-> survival(i)]],
         nan |-> {cell \in (1..n) \X (1..Len(NanColumns)) :
                     draw(11 + cell[2], cell[1]) < 30000}]

\* one call of the generator: the generator it constructs is left as its
\* fourteen arrays have left it
Generate(n, random_state) ==
    /\ Len(datasets) < MaxCalls
    /\ rng' = Advanced(RandomState(random_state), n, 11 + Len(NanColumns))
    /\ resp' = [op |-> "dataset", status |-> 0, n |-> n,
                random_state |-> random_state,
                df |-> generate_synthetic_hct_data(n, random_state)]
    /\ datasets' = Append(datasets, resp')
    /\ UNCHANGED <<phase, model, feature_info, prediction_count, error_count,
                   storage, conns, seen, recent, sent, overlap, files, trainer>>

NextData ==
    \E n \in 0..MaxRows, random_state \in Seeds :
        Generate(n, random_state)

SpecData == Init /\ [][NextData]_vars

-----------------------------------------------------------------------------
(* The trainer's export and the server's startup on the exported files.  A
   path is the sequence of its parts: names, extensions and separators. *)

PathParts == {"model", ".pkl", ".joblib", "/"}

RECURSIVE NoSlashPair(_, _)
NoSlashPair(p, k) ==
    IF k <= 1 THEN TRUE
    ELSE ~(p[k] = "/" /\ p[k - 1] = "/") /\ NoSlashPair(p, k - 1)

\* relative paths of a file: no separator at either end, no two in a row
Paths ==
    {p \in UNION {[1..n -> PathParts] : n \in 1..MaxPathLen} :
        /\ p[1] # "/"
        /\ p[Len(p)] # "/"
        /\ NoSlashPair(p, Len(p))}

\* str.replace('.pkl', '_info.pkl') on the first k parts of a path: every
\* occurrence is replaced
RECURSIVE replace_pkl(_, _)
replace_pkl(path, k) ==
    IF k = 0 THEN <<>>
    ELSE replace_pkl(path, k - 1) \o
            (IF path[k] = ".pkl" THEN <<"_info", ".pkl">> ELSE <<path[k]>>)

\* output_path.replace('.pkl', '_info.pkl'), model_path.replace(...)
info_path_of(path) == replace_pkl(path, Len(path))

\* os.path.dirname: the parts before the last separator
dirname(path) ==
    LET slashes == {i \in 1..Len(path) : path[i] = "/"}
    IN  IF slashes = {} THEN <<>>
        ELSE SubSeq(path, 1, (CHOOSE i \in slashes :
                                 \A j \in slashes : j <= i) - 1)

\* the directories os.makedirs(d, exist_ok=True) leaves: d and its parents
makedirs(d) ==
    {SubSeq(d, 1, i - 1) : i \in {j \in 1..Len(d) : d[j] = "/"}} \cup {d}

\* joblib.dump(value, path) on the files fs
dump(fs, path, value) == (path :> value) @@ fs

\* train_and_export_model(output_path, random_state) in an empty working
\* directory; pipeline is the fitted pipeline.  os.makedirs raises on an
\* empty directory name; the second dump raises when the directory of
\* info_path does not exist
train_and_export_model(output_path, random_state, pipeline) ==
    /\ phase = "created"
    /\ trainer.state = "idle"
    /\ rng' = Advanced(RandomState(random_state), TrainRows,
                        11 + Len(NanColumns))
    /\ datasets' = Append(datasets,
                           [op |-> "dataset", status |-> 0, n |-> TrainRows,
                            random_state |-> random_state])
    /\ LET dir == dirname(output_path)
           info_path == info_path_of(output_path)
       IN  IF dir = <<>>
             THEN /\ files' = files
                  /\ trainer' = [state |-> "raised",
                                 output_path |-> output_path,
                                 pipeline |-> pipeline]
             ELSE IF dirname(info_path) \notin makedirs(dir)
               THEN /\ files' = dump(files, output_path, pipeline)
                    /\ trainer' = [state |-> "raised",
                                   output_path |-> output_path,
                                   pipeline |-> pipeline]
               ELSE /\ files' = dump(dump(files, output_path, pipeline),
                                     info_path, TrainerFeatureInfo)
                    /\ trainer' = [state |-> "returned",
                                   output_path |-> output_path,
                                   pipeline |-> pipeline]
    /\ UNCHANGED <<phase, model, feature_info, prediction_count, error_count,
                   storage, conns, resp, seen, recent, sent, overlap>>

\* what joblib.load finds at model_path and at info_path
DiskAt(fs, model_path) ==
    [model |-> IF model_path \in DOMAIN fs THEN fs[model_path] ELSE Missing,
     info |-> IF info_path_of(model_path) \in DOMAIN fs
                THEN fs[info_path_of(model_path)] ELSE Missing]

\* the server is started with MODEL_PATH set to the trainer's output path
StartOnExport ==
    /\ trainer.state # "idle"
    /\ load_model(DiskAt(files, trainer.output_path))

\* the seeds given to the trainer: its default and the seed of the tests
TrainerSeeds == {123, 42}

NextExport ==
    \/ \E path \in Paths, random_state \in TrainerSeeds,
          pipeline \in {"TrainerA", "TrainerB"} :
          train_and_export_model(path, random_state, pipeline)
    \/ StartOnExport
    \/ \E s \in Slots : ReceiveGet(s, "health")
    \/ \E s \in Slots : health_check(s)
    \/ \E s \in Slots : Respond(s)

SpecExport == Init /\ [][NextExport]_vars

-----------------------------------------------------------------------------
(* Properties *)

\* a step that sends the response to a request of kind op
RequestStep(op) == resp' # resp /\ resp'.op = op

\* the step in which the route function of GET /health or GET /metrics
\* runs for the request on connection s
Read(s) == conns[s].pc = "get" /\ conns'[s].pc # "get"

\* the step that validates the body read on connection s
Validated(s) == conns[s].pc = "received" /\ conns'[s].pc # "received"

\* the step in which the route function handles the request on connection s
Routed(s) == conns[s].pc = "validated" /\ conns'[s].pc # "validated"

\* the step that sends the response of connection s
Sent(s) == conns[s].pc = "responding" /\ conns'[s].pc # "responding"

\* a well-formed PatientRecord, as the specification's data model states it
WellFormed(body) ==
    /\ FieldSet \subseteq DOMAIN body
    /\ body.age \in 18..80
    /\ body.gender \in {"Male", "Female"}
    /\ body.donor_type \in {"Matched sibling", "Matched unrelated",
                            "Haploidentical", "Cord blood"}
    /\ body.comorbidity_score \in 0..10
    /\ body.disease_type \in {"AML", "ALL", "MDS", "Lymphoma", "Other"}
    /\ body.conditioning_intensity \in {"Myeloablative", "Reduced-intensity"}
    /\ body.prior_transplants \in {0, 1}
    /\ body.time_from_diagnosis_days \in 1..5000
    /\ body.treatment_days \in 1..365

\* C1: every POST /predict whose body has a field out of range, outside its
\* enum or missing is answered 422; handling it calls neither the model nor
\* the logger of predictions and leaves both counters as they were.
C1_InvalidBodyRejected ==
    /\ [](\A s \in Slots :
            /\ (conns[s].pc = "validated") => WellFormed(conns[s].body)
            /\ (/\ conns[s].pc = "responding"
                /\ conns[s].out.op = "predict"
                /\ ~WellFormed(conns[s].out.body))
                  => (conns[s].out.status = 422))
    /\ [][ \A s \in Slots :
            /\ (Validated(s) /\ ~WellFormed(conns[s].body)) =>
                  /\ conns'[s].pc = "responding"
                  /\ conns'[s].out.status = 422
                  /\ conns'[s].out.body = conns[s].body
                  /\ conns'[s].out.calls \cap
                         {"predict_proba", "get_feature_importance",
                          "logger.info"} = {}
                  /\ prediction_count' = prediction_count
                  /\ error_count' = error_count
            /\ (Sent(s) /\ conns[s].out.status = 422) =>
                  /\ resp' = conns[s].out
                  /\ prediction_count' = prediction_count
                  /\ error_count' = error_count ]_vars

\* a body with missing fields was answered 422 by a server that has counted
\* predictions and errors before
C1_Witness ==
    /\ resp.op = "predict"
    /\ resp.status = 422
    /\ "treatment_days" \notin DOMAIN resp.body
    /\ prediction_count > 0
    /\ error_count > 0

\* C2: a successful predict returns a probability in [0,1]; the label is
\* "Likely to survive" iff the probability is strictly above 0.5 and "At
\* risk" otherwise (0.5 included); no other label is returned.
C2_LabelByThreshold ==
    (resp.op = "predict" /\ resp.status = 200) =>
        /\ WellFormed(resp.body)
        /\ resp.probability \in 0..Scale
        /\ resp.prediction \in {"Likely to survive", "At risk"}
        /\ (resp.prediction = "Likely to survive") <=> (2 * resp.probability > Scale)

\* a prediction at exactly 0.5
C2_Witness ==
    /\ resp.op = "predict"
    /\ resp.status = 200
    /\ 2 * resp.probability = Scale
    /\ resp.prediction = "At risk"

\* the calls of client c that reached the limiter in the last RateWindow
\* seconds
RecentCalls(c) == recent[c][1] + recent[c][2]

\* C3 as stated: when a client has made 11 /predict calls within 60 seconds,
\* the 11th is answered 429.
C3_EleventhWithin60s ==
    [][ \A s \in Slots, c \in Clients :
          (/\ Routed(s)
           /\ conns[s].client = c
           /\ RecentCalls(c)' >= RateLimit + 1) =>
              conns'[s].out.status = 429 ]_vars

\* the hits of client c in its live window
WindowHits(c) == IF storage[c].ttl > 0 THEN storage[c].hits ELSE 0

\* C3, amended: within one window of a client (the 60 seconds that begin
\* with its first validated call after the previous window ended) calls 1 to
\* 10 are not limited and every later call is answered 429; a call is only
\* refused when it is at least the 11th of that client within 60 seconds;
\* the calls of a client leave the other clients' windows untouched.
C3_FixedWindow ==
    [][ \A s \in Slots, c \in Clients :
          (Routed(s) /\ conns[s].client = c) =>
              /\ (conns'[s].out.status = 429) <=>
                     (WindowHits(c) + 1 > RateLimit)
              /\ (conns'[s].out.status = 429) =>
                     (RecentCalls(c)' >= RateLimit + 1)
              /\ \A d \in Clients \ {c} :
                    storage'[d] = storage[d] /\ recent'[d] = recent[d] ]_vars

\* a client is refused while another client is in the middle of its window
C3_Witness ==
    /\ resp.op = "predict"
    /\ resp.status = 429
    /\ \E d \in Clients \ {resp.client} : WindowHits(d) \in 1..RateLimit

\* C4: error_count grows by exactly 1 for each request answered 500 and is
\* left unchanged by a request rejected by validation and by a request whose
\* explainability step failed.
C4_ErrorCount ==
    [][ /\ \A s \in Slots :
              /\ Routed(s) =>
                    LET out == conns'[s].out
                    IN  /\ (out.status = 500) => (error_count' = error_count + 1)
                        /\ (out.status = 200 /\ out.feature_importance = Note)
                              => (error_count' = error_count)
              /\ (Validated(s) /\ conns'[s].pc = "responding") =>
                    /\ conns'[s].out.status = 422
                    /\ error_count' = error_count
              /\ Sent(s) => (error_count' = error_count)
        /\ (error_count' # error_count) =>
              \E s \in Slots : Routed(s) /\ conns'[s].out.status = 500 ]_vars

\* a request whose explainability step failed, on a server that has counted
\* an error before
C4_Witness ==
    /\ resp.op = "predict"
    /\ resp.status = 200
    /\ resp.feature_importance = Note
    /\ error_count > 0

\* C5: get_feature_importance never raises: it returns a mapping of at most
\* 5 feature names to scores, or the note when an internal step failed (no
\* model loaded, or a row without a column that the preprocessor reads).
C5_ExplainNeverRaises ==
    (resp.op = "explain") =>
        /\ \/ resp.result = Note
           \/ /\ resp.result.kind = "importance"
              /\ Len(resp.result.items) <= 5
              /\ \A i \in 1..Len(resp.result.items) :
                    /\ Len(resp.result.items[i]) = 2
                    /\ resp.result.items[i][2] \in 0..Scale
        /\ (model = None) => (resp.result = Note)
        /\ ("comorbidity_score" \notin DOMAIN resp.row) => (resp.result = Note)

\* the note returned for a loaded model one step of which failed
C5_Witness ==
    /\ resp.op = "explain"
    /\ model # None
    /\ WellFormed(resp.row)
    /\ resp.result = Note

\* C6: the model is assigned by the startup load only, and every successful
\* /predict for an input returns the probability that its first successful
\* /predict returned, whatever was handled in between.
C6_Deterministic ==
    /\ []((resp.op = "predict" /\ resp.status = 200) =>
              resp.probability = seen[resp.body])
    /\ [][ (model' # model) => (phase = "created" /\ phase' # "created") ]_vars

\* a patient predicted again after failed requests
C6_Witness ==
    /\ resp.op = "predict"
    /\ resp.status = 200
    /\ model = "Rejecting"
    /\ prediction_count >= 2
    /\ error_count >= 1

\* C7: a /predict request that passes validation and the limiter adds 1 to
\* exactly one counter: prediction_count with a 200, error_count with a 500.
C7_OneIncrement ==
    [][ /\ \A s \in Slots :
              (Routed(s) /\ conns'[s].out.status # 429) =>
                  /\ WellFormed(conns[s].body)
                  /\ \/ /\ conns'[s].out.status = 200
                        /\ prediction_count' = prediction_count + 1
                        /\ error_count' = error_count
                     \/ /\ conns'[s].out.status = 500
                        /\ prediction_count' = prediction_count
                        /\ error_count' = error_count + 1
        /\ (\A s \in Slots : ~Routed(s) \/ conns'[s].out.status = 429) =>
              /\ prediction_count' = prediction_count
              /\ error_count' = error_count ]_vars

\* a failed request on a server with a loaded model that has predicted
C7_Witness ==
    /\ resp.op = "predict"
    /\ resp.status = 500
    /\ model # None
    /\ prediction_count > 0

\* C8: under any interleaving no increment is lost: once every request has
\* completed, prediction_count is the number of 200 responses, error_count
\* the number of 500 responses, and their sum the number of requests that
\* passed validation and the limiter.
C8_NoLostIncrement ==
    AllIdle =>
        /\ prediction_count = sent[200]
        /\ error_count = sent[500]
        /\ prediction_count + error_count = Handled - sent[429]

\* all requests completed after two of them overlapped, with responses of
\* each kind
C8_Witness ==
    /\ AllIdle
    /\ overlap
    /\ sent[200] >= RateLimit
    /\ sent[500] >= 1

\* C9: no /predict is answered 200 without a loaded model: a failed load
\* aborts the startup and nothing is served afterwards, and a /predict
\* handled while the model is not loaded fails with 500, adds 1 to
\* error_count and leaves prediction_count unchanged.
C9_NoPredictionWithoutModel ==
    [][ /\ phase # "aborted"
        /\ (phase' = "serving") => (model' # None /\ feature_info' # None)
        /\ \A s \in Slots :
              /\ (Routed(s) /\ conns'[s].out.status = 200) => (model # None)
              /\ (Routed(s) /\ model = None
                      /\ conns'[s].out.status # 429) =>
                    /\ conns'[s].out.status = 500
                    /\ error_count' = error_count + 1
                    /\ prediction_count' = prediction_count
              /\ (/\ Sent(s)
                  /\ conns[s].out.op = "predict"
                  /\ conns[s].out.status = 200) => (model # None) ]_vars

\* a /predict failed before the startup, and the startup then aborted
C9_Witness ==
    /\ phase = "aborted"
    /\ model = None
    /\ resp.op = "predict"
    /\ resp.status = 500
    /\ error_count > 0

\* C10: /health and /metrics change neither the counters, nor the model, nor
\* the limiter's storage; /health reports "healthy" and whether the model is
\* loaded, /metrics the current value of both counters.
C10_PureReads ==
    [][ \A s \in Slots :
          /\ Read(s) =>
                /\ UNCHANGED <<prediction_count, error_count, model,
                               feature_info, storage>>
                /\ conns'[s].pc = "responding"
                /\ conns'[s].out.op = conns[s].op
                /\ conns'[s].out.status = 200
                /\ (conns[s].op = "health") =>
                      /\ conns'[s].out.body.status = "healthy"
                      /\ conns'[s].out.body.model_loaded = (model # None)
                /\ (conns[s].op = "metrics") =>
                      /\ conns'[s].out.body.prediction_count = prediction_count
                      /\ conns'[s].out.body.error_count = error_count
          /\ (Sent(s) /\ conns[s].out.op \in {"health", "metrics"}) =>
                /\ UNCHANGED <<prediction_count, error_count, model,
                               feature_info, storage>>
                /\ resp' = conns[s].out
          /\ (conns[s].pc = "idle" /\ conns'[s].pc = "get") =>
                UNCHANGED <<prediction_count, error_count, model,
                            feature_info, storage>> ]_vars

\* /metrics read on a server that has counted predictions and errors and
\* holds a client's window
C10_Witness ==
    /\ resp.op = "metrics"
    /\ resp.body.prediction_count > 0
    /\ resp.body.error_count > 0
    /\ \E c \in Clients : WindowHits(c) > 0

\* C11: a /predict request over the rate limit is dropped, not queued: the
\* step that checks the limiter answers it 429 without calling the model or
\* a logger and leaves both counters and the model as they were; sending
\* that response frees the connection and changes no counter either.
C11_ExcessDropped ==
    [][ \A s \in Slots :
          /\ (/\ conns[s].pc = "validated"
              /\ conns'[s].pc # "validated"
              /\ WindowHits(conns[s].client) >= RateLimit) =>
                 /\ conns'[s].pc = "responding"
                 /\ conns'[s].out.status = 429
          /\ (/\ conns[s].pc = "validated"
              /\ conns'[s].pc = "responding"
              /\ conns'[s].out.status = 429) =>
                 /\ conns'[s].out.calls \cap
                        {"predict_proba", "get_feature_importance",
                         "logger.info", "logger.error"} = {}
                 /\ UNCHANGED <<prediction_count, error_count, model>>
          /\ (/\ conns[s].pc = "responding"
              /\ conns[s].out.status = 429
              /\ conns'[s] # conns[s]) =>
                 /\ conns'[s] = Idle
                 /\ resp' = conns[s].out
                 /\ UNCHANGED <<prediction_count, error_count, model>> ]_vars

\* a refused request was answered after it overlapped with another request,
\* and the counters hold the answered requests only
C11_Witness ==
    /\ resp.op = "predict"
    /\ resp.status = 429
    /\ overlap
    /\ AllIdle
    /\ prediction_count + error_count = sent[200] + sent[500]

\* field f of a payload is missing, out of its range or outside its enum,
\* as the specification's data model states the ranges
Violated(body, f) ==
    \/ f \notin DOMAIN body
    \/ /\ f = "age" /\ body[f] \notin 18..80
    \/ /\ f = "gender" /\ body[f] \notin {"Male", "Female"}
    \/ /\ f = "donor_type"
       /\ body[f] \notin {"Matched sibling", "Matched unrelated",
                           "Haploidentical", "Cord blood"}
    \/ /\ f = "comorbidity_score" /\ body[f] \notin 0..10
    \/ /\ f = "disease_type"
       /\ body[f] \notin {"AML", "ALL", "MDS", "Lymphoma", "Other"}
    \/ /\ f = "conditioning_intensity"
       /\ body[f] \notin {"Myeloablative", "Reduced-intensity"}
    \/ /\ f = "prior_transplants" /\ body[f] \notin {0, 1}
    \/ /\ f = "time_from_diagnosis_days" /\ body[f] \notin 1..5000
    \/ /\ f = "treatment_days" /\ body[f] \notin 1..365

\* C12: validation of a payload either yields a record with all nine fields
\* within their ranges and enums, or fails with an error whose fields are
\* exactly the fields that are missing, out of range or outside their enum.
C12_EveryViolationReported ==
    (resp.op = "parsed") =>
        /\ resp.errors =
              {f \in {"age", "gender", "donor_type", "comorbidity_score",
                      "disease_type", "conditioning_intensity",
                      "prior_transplants", "time_from_diagnosis_days",
                      "treatment_days"} : Violated(resp.body, f)}
        /\ resp.ok <=> (resp.errors = {})
        /\ resp.ok => WellFormed(resp.body)

\* a payload rejected for a missing field, a field out of its range and a
\* field outside its enum at once
C12_Witness ==
    /\ resp.op = "parsed"
    /\ ~resp.ok
    /\ resp.errors = {"age", "gender", "treatment_days"}
    /\ "treatment_days" \notin DOMAIN resp.body
    /\ "age" \in DOMAIN resp.body
    /\ "gender" \in DOMAIN resp.body

\* the name list the specification describes: the numeric feature names,
\* then the one-hot category-level names where the encoder gives them
DerivedNames(p) ==
    p.transformers[1].features \o
        (IF Len(p.transformers) >= 2 /\ p.transformers[2].has_names_out
           THEN p.transformers[2].names_out ELSE <<>>)

\* C13: when introspection succeeds the result pairs the i-th score with the
\* i-th derived name, drops the scores beyond the name list and holds the 5
\* highest-scored pairs in descending order; for an artifact of the trainer
\* no score is dropped and each score is paired with the column of the
\* preprocessor's output it belongs to.
C13_PositionalTopFive ==
    (resp.op = "explain" /\ resp.result # Note) =>
        LET p == Pipeline(model)
            names == DerivedNames(p)
            scores == p.importances
            paired == {k \in 1..Len(scores) : k <= Len(names)}
            items == resp.result.items
            returned == {items[i][1] : i \in 1..Len(items)}
        IN  /\ Len(items) = IF Cardinality(paired) < 5
                               THEN Cardinality(paired) ELSE 5
            /\ Cardinality(returned) = Len(items)
            /\ \A i \in 1..Len(items) :
                  \E k \in paired : items[i] = <<names[k], scores[k]>>
            /\ \A i, j \in 1..Len(items) :
                  (i < j) => (items[i][2] >= items[j][2])
            /\ \A k \in paired :
                  (names[k] \notin returned) =>
                      (scores[k] <= items[Len(items)][2])
            /\ (model \in {"TrainerA", "TrainerB"}) =>
                  /\ Len(names) = Len(scores)
                  /\ Len(scores) = 18
                  /\ names = OutputColumns(p.transformers, Len(p.transformers))
                  /\ names[1] = "age"
                  /\ names[6] = "gender_Female"
                  /\ names[18] = "conditioning_intensity_Reduced-intensity"

\* the trainer's artifact with tied scores: a one-hot column comes first,
\* and the ties keep the order of the columns
C13_Witness ==
    /\ resp.op = "explain"
    /\ model = "TrainerB"
    /\ resp.result # Note
    /\ resp.result.items =
          << <<"donor_type_Matched sibling", 400>>,
             <<"conditioning_intensity_Myeloablative", 250>>,
             <<"conditioning_intensity_Reduced-intensity", 200>>,
             <<"age", 50>>, <<"comorbidity_score", 50>> >>

\* C14: a failure inside the explainability step never fails the request:
\* a /predict whose introspection failed (it logged the warning) is answered
\* 200 with the model's probability, the threshold label and the fallback
\* note, and is counted in prediction_count, not in error_count; a pipeline
\* that predicts but cannot be introspected answers every admitted request
\* that way.
C14_ExplainFailureAbsorbed ==
    [][ \A s \in Slots :
          Routed(s) =>
              LET out == conns'[s].out
              IN  /\ ("logger.warning" \in out.calls) =>
                        /\ out.status = 200
                        /\ out.feature_importance = Note
                        /\ out.probability = Pipeline(model).proba[out.body]
                        /\ (out.prediction = "Likely to survive") <=>
                               (2 * out.probability > Scale)
                        /\ (out.prediction = "At risk") <=>
                               (2 * out.probability <= Scale)
                        /\ prediction_count' = prediction_count + 1
                        /\ error_count' = error_count
                  /\ (/\ model \in {"RenamedStep", "NoImportances"}
                      /\ out.status # 429) =>
                        /\ out.status = 200
                        /\ "logger.warning" \in out.calls ]_vars

\* a pipeline whose classifier step has another name predicted survival
\* twice or more and explained nothing
C14_Witness ==
    /\ resp.op = "predict"
    /\ resp.status = 200
    /\ model = "RenamedStep"
    /\ resp.feature_importance = Note
    /\ resp.prediction = "Likely to survive"
    /\ prediction_count >= 2
    /\ error_count = 0

\* C16: validation is decided before rate limiting: a /predict with an
\* invalid body is answered 422 whatever the client's rate-limit state, the
\* limiter is not consulted for it, and the limiter's storage (the quota of
\* every client) is left as it was.
C16_ValidationBeforeLimit ==
    [][ \A s \in Slots :
          /\ Validated(s) =>
                /\ storage' = storage
                /\ \A c \in Clients : WindowHits(c)' = WindowHits(c)
          /\ (Validated(s) /\ ~WellFormed(conns[s].body)) =>
                /\ conns'[s].pc = "responding"
                /\ conns'[s].out.status = 422
                /\ "limiter" \notin conns'[s].out.calls
          /\ Routed(s) => WellFormed(conns[s].body)
          /\ (Sent(s) /\ conns[s].out.status = 422) =>
                /\ resp' = conns[s].out
                /\ storage' = storage
          /\ (storage' # storage) => \E t \in Slots : Routed(t) ]_vars

\* an invalid body answered 422 for a client that has used the 10 calls of
\* its window
C16_Witness ==
    /\ resp.op = "predict"
    /\ resp.status = 422
    /\ WindowHits(resp.client) >= RateLimit
    /\ sent[200] + sent[500] >= RateLimit

\* the sibling path the specification describes: the extension of the path
\* replaced by _info plus the same extension
SiblingPath(path) ==
    IF path[Len(path)] \in {".pkl", ".joblib"}
      THEN SubSeq(path, 1, Len(path) - 1) \o <<"_info", path[Len(path)]>>
      ELSE path \o <<"_info">>

\* C15 as stated: for every output path the trainer writes two distinct
\* files, the pipeline at the path and the metadata (categorical_features,
\* numeric_features, feature_names) at the sibling path; a server started
\* with MODEL_PATH set to the path loads the pipeline as model and the
\* metadata as feature_info, and /health then reports model_loaded true.
C15_ExportThenLoad ==
    /\ [](trainer.state # "idle" =>
            LET out == trainer.output_path
                info == SiblingPath(out)
            IN  /\ trainer.state = "returned"
                /\ DOMAIN files = {out, info}
                /\ out # info
                /\ files[out] = trainer.pipeline
                /\ files[info] = TrainerFeatureInfo
                /\ DOMAIN FeatureInfo = {"categorical_features",
                                         "numeric_features", "feature_names"}
                /\ (phase # "created") =>
                      /\ phase = "serving"
                      /\ model = trainer.pipeline
                      /\ feature_info = TrainerFeatureInfo)
    /\ [][ (trainer.state # "idle" /\ phase # "created"
                                   /\ RequestStep("health")) =>
              resp'.body.model_loaded ]_vars

=============================================================================
